---- MODULE Spec2Model ----
(***************************************************************************)
(* A model of kitty's scrollback store, kitty/history.c: the HistoryBuf    *)
(* ring buffer, its index translation, push, resize and rewrap.            *)
(*                                                                         *)
(* A HistoryBuf is a record                                                *)
(*   xnum, ynum          width and capacity                                *)
(*   buf                 the flat cell array, xnum * ynum cells            *)
(*   continued_map       one flag per physical row                         *)
(*   count               number of valid rows                              *)
(*   start_of_data       physical row of the oldest valid row              *)
(* Two stores exist, so that one can be rewrapped into the other.          *)
(***************************************************************************)
EXTENDS Integers, Sequences, FiniteSets, TLC

VARIABLES
    hb,      \* hb[h]: the HistoryBuf object h
    log,     \* log[h]: the rows pushed into h while nothing else has touched it
    pushes,  \* how many rows have been pushed so far, into either store
    last,    \* the last call made and what it returned
    rw       \* the fast-path rewrap in progress with the interpreter lock released

vars == <<hb, log, pushes, last, rw>>

\* ---------------------------------------------------------------- bounds

MaxRows == 3      \* largest capacity (ynum) a store is given
MaxCols == 3      \* largest width (xnum) a store is given
MaxPushes == 3    \* how many rows are pushed in one run

BLANK_CHAR == 0

Bufs == {1, 2}

\* ---------------------------------------------------------------- helpers

MIN(a, b) == IF a < b THEN a ELSE b

\* lineptr: offset of physical row y in the flat cell array
lineptr(self, y) == y * self.xnum

\* the xnum cells found at lineptr(self, y)
RowCells(self, y) == [x \in 0..(self.xnum - 1) |-> self.buf[lineptr(self, y) + x]]

\* index_of: physical row of reverse line number lnum (0 = newest)
index_of(self, lnum) ==
    IF self.count = 0 THEN 0
    ELSE LET idx == self.count - 1 - MIN(self.count - 1, lnum)
         IN  (self.start_of_data + idx) % self.ynum

\* init_line: the Line view of physical row num
init_line(self, num) ==
    [cells |-> RowCells(self, num), continued |-> self.continued_map[num]]

\* historybuf_init_line: the unchecked read of reverse line number lnum
historybuf_init_line(self, lnum) == init_line(self, index_of(self, lnum))

\* the store new() leaves behind on its success branch
FreshBuf(ynum, xnum) ==
    [xnum |-> xnum, ynum |-> ynum,
     buf |-> [i \in 0..(xnum * ynum - 1) |-> BLANK_CHAR],
     continued_map |-> [y \in 0..(ynum - 1) |-> FALSE],
     count |-> 0, start_of_data |-> 0]

\* ---------------------------------------------------------------- new

\* unsigned int is 32 bits wide; a value is held as its two 16-bit halves
Half == 65536

\* xnum * ynum as the 32-bit unsigned product, <<high half, low half>>
UIntMul(a, b) ==
    LET al == a % Half
        ah == (a \div Half) % Half
        bl == b % Half
        bh == (b \div Half) % Half
        low == al * bl
    IN  << ((low \div Half) + ah * bl + al * bh) % Half, low % Half >>

\* new(): what the constructor reports for the arguments (ynum, xnum), given
\* which of its allocations succeed.  obj is "NULL" or the object returned.
new(ynum, xnum, selfOK, bufOK, mapOK, lineOK) ==
    IF UIntMul(xnum, ynum) = <<0, 0>>
    THEN [err |-> "ValueError", obj |-> "NULL"]
    ELSE IF ~selfOK
    THEN [err |-> "MemoryError", obj |-> "NULL"]
    ELSE IF ~bufOK \/ ~lineOK \/ mapOK
    THEN [err |-> "MemoryError", obj |-> "NULL"]
    ELSE [err |-> "none", obj |-> "HistoryBuf"]

\* ---------------------------------------------------------------- push

\* historybuf_push without the eviction: a full store keeps its start
historybuf_push_no_evict(self) ==
    [hb  |-> IF self.count = self.ynum THEN self
             ELSE [self EXCEPT !.count = self.count + 1],
     idx |-> (self.start_of_data + self.count) % self.ynum]

\* historybuf_push whose start runs past the end of the rows
historybuf_push_no_wrap(self) ==
    [hb  |-> IF self.count = self.ynum
             THEN [self EXCEPT !.start_of_data = self.start_of_data + 1]
             ELSE [self EXCEPT !.count = self.count + 1],
     idx |-> (self.start_of_data + self.count) % self.ynum]

\* historybuf_push: claim the next physical row; evict the oldest when full
historybuf_push(self) ==
    LET idx == (self.start_of_data + self.count) % self.ynum
    IN  [hb  |-> IF self.count = self.ynum
                 THEN [self EXCEPT !.start_of_data = (self.start_of_data + 1) % self.ynum]
                 ELSE [self EXCEPT !.count = self.count + 1],
         idx |-> idx]

\* copy_cells / copy_line: the xnum cells of `cells` written over physical row y
copy_cells(self, y, cells) ==
    [i \in DOMAIN self.buf |->
        IF i >= lineptr(self, y) /\ i < lineptr(self, y) + self.xnum
        THEN cells[i - lineptr(self, y)]
        ELSE self.buf[i]]

\* historybuf_add_line: push, then copy the line and its flag into the row
historybuf_add_line(self, line) ==
    LET p == historybuf_push(self)
    IN  [p.hb EXCEPT !.buf = copy_cells(p.hb, p.idx, line.cells),
                     !.continued_map[p.idx] = line.continued]

\* ---------------------------------------------------------------- resize

RECURSIVE resize_copy(_, _, _)
\* the copy loop of historybuf_resize, from s upwards
resize_copy(self, t, s) ==
    IF s >= t.count THEN t
    ELSE LET si == index_of(self, s)
             ti == index_of(t, s)
         IN  resize_copy(self,
                         [t EXCEPT !.buf = copy_cells(t, ti, RowCells(self, si)),
                                   !.continued_map[ti] = self.continued_map[si]],
                         s + 1)

\* historybuf_resize without the copy of the continuation flags
historybuf_resize_no_flags(self, lines, bufOK, mapOK) ==
    IF lines > 0 /\ lines # self.ynum
    THEN IF ~bufOK \/ ~mapOK THEN [hb |-> self, ret |-> FALSE]
         ELSE LET t0 == [FreshBuf(lines, self.xnum) EXCEPT
                            !.count = MIN(self.count, lines)]
                  t1 == resize_copy(self, t0, 0)
              IN  [hb  |-> [t1 EXCEPT !.continued_map = t0.continued_map],
                   ret |-> TRUE]
    ELSE [hb |-> self, ret |-> TRUE]

\* historybuf_resize that trims count before its second allocation is known
historybuf_resize_partial(self, lines, bufOK, mapOK) ==
    IF lines > 0 /\ lines # self.ynum
    THEN IF ~bufOK THEN [hb |-> self, ret |-> FALSE]
         ELSE IF ~mapOK
         THEN [hb |-> [self EXCEPT !.count = MIN(self.count, lines)], ret |-> FALSE]
         ELSE LET t0 == [FreshBuf(lines, self.xnum) EXCEPT
                            !.count = MIN(self.count, lines)]
              IN  [hb |-> resize_copy(self, t0, 0), ret |-> TRUE]
    ELSE [hb |-> self, ret |-> TRUE]

\* historybuf_resize that reallocates also when the capacity is the same
historybuf_resize_same_capacity(self, lines, bufOK, mapOK) ==
    IF lines > 0
    THEN IF ~bufOK THEN [hb |-> self, ret |-> FALSE]
         ELSE IF ~mapOK THEN [hb |-> self, ret |-> FALSE]
         ELSE LET t0 == [FreshBuf(lines, self.xnum) EXCEPT
                            !.count = MIN(self.count, lines)]
              IN  [hb |-> resize_copy(self, t0, 0), ret |-> TRUE]
    ELSE [hb |-> self, ret |-> TRUE]

\* historybuf_resize: [hb |-> the store afterwards, ret |-> what it returns]
historybuf_resize(self, lines, bufOK, mapOK) ==
    IF lines > 0 /\ lines # self.ynum
    THEN IF ~bufOK THEN [hb |-> self, ret |-> FALSE]
         ELSE IF ~mapOK THEN [hb |-> self, ret |-> FALSE]
         ELSE LET t0 == [FreshBuf(lines, self.xnum) EXCEPT
                            !.count = MIN(self.count, lines)]
              IN  [hb |-> resize_copy(self, t0, 0), ret |-> TRUE]
    ELSE [hb |-> self, ret |-> TRUE]

\* ---------------------------------------------------------------- line

\* line() with its bound off by one
line_off_by_one(self, lnum) ==
    IF self.count = 0 THEN [err |-> "IndexError", line |-> <<>>]
    ELSE IF lnum > self.count THEN [err |-> "IndexError", line |-> <<>>]
    ELSE [err |-> "none", line |-> init_line(self, index_of(self, lnum))]

\* line(): the bounds-checked read
line(self, lnum) ==
    IF self.count = 0 THEN [err |-> "IndexError", line |-> <<>>]
    ELSE IF lnum >= self.count THEN [err |-> "IndexError", line |-> <<>>]
    ELSE [err |-> "none", line |-> init_line(self, index_of(self, lnum))]

\* ---------------------------------------------------------------- as_ansi

\* the size of as_ansi's static text buffer
AnsiBufSize == 5120

\* line_as_ansi is not among the sources: the text of a row is taken to be
\* its cells, one character each
line_as_ansi(l, xnum) == [x \in 1..xnum |-> l.cells[x - 1]]

RECURSIVE as_ansi_loop(_, _, _, _)
\* the loop of as_ansi from i upwards; calls are the callback calls made so
\* far, failAt the call at which the callback raises (none if >= count)
as_ansi_loop(self, i, calls, failAt) ==
    IF i >= self.count THEN [err |-> "none", calls |-> calls]
    ELSE LET l0   == init_line(self, i)
             cont == IF i < self.count - 1
                     THEN self.continued_map[index_of(self, i + 1)]
                     ELSE FALSE
             text == line_as_ansi(l0, self.xnum)
             nl   == ~cont /\ Len(text) < AnsiBufSize - 1
             call == [slot |-> i, text |-> text, newline |-> nl]
         IN  IF i = failAt
             THEN [err |-> "callback", calls |-> Append(calls, call)]
             ELSE as_ansi_loop(self, i + 1, Append(calls, call), failAt)

\* as_ansi(callback)
as_ansi(self, failAt) == as_ansi_loop(self, 0, <<>>, failAt)

\* ---------------------------------------------------------------- rewrap

\* map_src_index: physical row of the y-th oldest source row
map_src_index(src, y) == (src.start_of_data + y) % src.ynum

\* init_src_line: the Line view of the y-th oldest source row
init_src_line(src, y) == init_line(src, map_src_index(src, y))

\* is_src_line_continued: whether the y-th oldest source row runs on
is_src_line_continued(src, y) ==
    IF map_src_index(src, y) < src.ynum - 1
    THEN src.continued_map[map_src_index(src, y + 1)]
    ELSE FALSE

\* next_dest_line that, on a full destination, writes over the newest row
\* instead of evicting the oldest
next_dest_line_full_stop(dest, cont) ==
    IF dest.count = dest.ynum
    THEN [hb  |-> [dest EXCEPT !.continued_map[index_of(dest, 0)] = cont],
          idx |-> index_of(dest, 0)]
    ELSE LET p == historybuf_push(dest)
         IN  [hb |-> [p.hb EXCEPT !.continued_map[p.idx] = cont], idx |-> p.idx]

\* next_dest_line: push a destination row and give it the flag cont
next_dest_line(dest, cont) ==
    LET p == historybuf_push(dest)
    IN  [hb |-> [p.hb EXCEPT !.continued_map[p.idx] = cont], idx |-> p.idx]

\* The body of rewrap_inner is in rewrap.h, which is not among the sources;
\* it is modelled from the design's description of the general path (walk the
\* rows oldest to newest, reassemble logical lines, re-segment at the
\* destination width, push every chunk), over the macros above.

\* a row's cells as a sequence
RowSeq(cells, n) == [i \in 1..n |-> cells[i - 1]]

RECURSIVE TrimBlanks(_)
\* content without its trailing padding
TrimBlanks(sq) ==
    IF Len(sq) > 0 /\ sq[Len(sq)] = BLANK_CHAR
    THEN TrimBlanks(SubSeq(sq, 1, Len(sq) - 1))
    ELSE sq

\* a chunk as the cells of a destination row, blank-padded
ChunkCells(chunk, xnum) ==
    [x \in 0..(xnum - 1) |-> IF x < Len(chunk) THEN chunk[x + 1] ELSE BLANK_CHAR]

RECURSIVE push_chunks(_, _)
\* re-segmentation: push content as rows of the destination width; every
\* chunk but the last is pushed with continued = TRUE
push_chunks(dest, content) ==
    IF Len(content) = 0 THEN dest
    ELSE LET n     == MIN(Len(content), dest.xnum)
             chunk == SubSeq(content, 1, n)
             rest  == SubSeq(content, n + 1, Len(content))
             p     == next_dest_line(dest, Len(rest) > 0)
         IN  push_chunks([p.hb EXCEPT !.buf = copy_cells(p.hb, p.idx,
                                                ChunkCells(chunk, dest.xnum))],
                         rest)

RECURSIVE rewrap_walk(_, _, _, _, _)
\* reassembly: acc is the content of the logical line gathered so far
rewrap_walk(src, dest, src_y, acc, src_limit) ==
    IF src_y >= src_limit THEN push_chunks(dest, acc)
    ELSE LET row == RowSeq(init_src_line(src, src_y).cells, src.xnum)
         IN  IF is_src_line_continued(src, src_y)
             THEN rewrap_walk(src, dest, src_y + 1, acc \o row, src_limit)
             ELSE rewrap_walk(src, push_chunks(dest, acc \o TrimBlanks(row)),
                              src_y + 1, <<>>, src_limit)

rewrap_inner(src, dest, src_limit) == rewrap_walk(src, dest, 0, <<>>, src_limit)

\* historybuf_rewrap whose fast path leaves the destination's start alone
historybuf_rewrap_keeps_start(self, other) ==
    IF other.xnum = self.xnum /\ other.ynum = self.ynum
    THEN [other EXCEPT !.buf = self.buf,
                       !.continued_map = self.continued_map,
                       !.count = self.count]
    ELSE LET o0 == [other EXCEPT !.count = 0, !.start_of_data = 0]
         IN  IF self.count > 0 THEN rewrap_inner(self, o0, self.count) ELSE o0

\* historybuf_rewrap: the destination afterwards
historybuf_rewrap(self, other) ==
    IF other.xnum = self.xnum /\ other.ynum = self.ynum
    THEN [other EXCEPT !.buf = self.buf,
                       !.continued_map = self.continued_map,
                       !.count = self.count,
                       !.start_of_data = self.start_of_data]
    ELSE LET o0 == [other EXCEPT !.count = 0, !.start_of_data = 0]
         IN  IF self.count > 0 THEN rewrap_inner(self, o0, self.count) ELSE o0

\* a rewrap that moves the rows out of its source
rewrap_source_drained(self, other) == [self EXCEPT !.count = 0, !.start_of_data = 0]

\* what historybuf_rewrap leaves of its source: the fast path reads self and
\* writes other; the general path hands self to rewrap_inner as src, whose
\* macros read src and write only src->line, the scratch Line view
rewrap_source(self, other) == self

\* ---------------------------------------------------------------- inputs

\* The code copies cells and never looks inside them, so every pushed cell is
\* given a content of its own: the n-th row pushed holds n * MaxCols + 1 ...
\* in its k used cells, then padding.
InputCells(xnum, n, k) ==
    [x \in 0..(xnum - 1) |-> IF x < k THEN n * MaxCols + x + 1 ELSE BLANK_CHAR]

\* the rows a caller may push as the n-th row at width xnum
InputLines(xnum, n) ==
    { [cells |-> InputCells(xnum, n, k), continued |-> f] :
        k \in {1, xnum}, f \in BOOLEAN }

\* the arguments given to new(): small ones, and ones whose product wraps
NewArgs == {0, 1, 2, Half}

\* the allocations a call can see fail
AllocFailures == {"none", "buf", "map"}

\* ---------------------------------------------------------------- state

\* Store 1 is the scrollback in use: rows are pushed into it and its capacity
\* is changed.  Store 2 is the spare one: each is rewrapped into the other.
Current == 1

\* what a call record keeps of a store as it was before the call
Summary(self) ==
    [ynum |-> self.ynum, count |-> self.count, start_of_data |-> self.start_of_data]

NoPre == [ynum |-> 0, count |-> 0, start_of_data |-> 0]

NoCall == [op |-> "none", self |-> 0, other |-> 0, arg |-> 0, ret |-> 0, pre |-> NoPre]

\* no rewrap is between Py_BEGIN_ALLOW_THREADS and Py_END_ALLOW_THREADS
NoRewrap == [pc |-> "idle", self |-> 0, other |-> 0, at |-> 0, pre |-> 0]

Dims == { FreshBuf(y, x) : y \in 1..MaxRows, x \in 1..MaxCols }

Init ==
    /\ hb \in [Bufs -> Dims]
    /\ log = [h \in Bufs |-> [fresh |-> TRUE, rows |-> <<>>]]
    /\ pushes = 0
    /\ last = NoCall
    /\ rw = NoRewrap

Touched == [fresh |-> FALSE, rows |-> <<>>]

\* HistoryBuf(ynum, xnum)
New ==
    \E ynum \in NewArgs, xnum \in NewArgs, selfOK, bufOK, mapOK, lineOK \in BOOLEAN :
        /\ last' = [op |-> "new", self |-> 0, other |-> 0,
                    arg |-> [ynum |-> ynum, xnum |-> xnum, selfOK |-> selfOK,
                             bufOK |-> bufOK, mapOK |-> mapOK, lineOK |-> lineOK],
                    ret |-> new(ynum, xnum, selfOK, bufOK, mapOK, lineOK),
                    pre |-> NoPre]
        /\ UNCHANGED <<hb, log, pushes, rw>>

\* h.push(l)
Push ==
    \E l \in InputLines(hb[Current].xnum, pushes) :
        /\ pushes < MaxPushes
        /\ pushes' = pushes + 1
        /\ hb' = [hb EXCEPT ![Current] = historybuf_add_line(hb[Current], l)]
        /\ log' = [log EXCEPT ![Current] =
                     IF log[Current].fresh
                     THEN [fresh |-> TRUE, rows |-> Append(log[Current].rows, l)]
                     ELSE Touched]
        /\ last' = [op |-> "push", self |-> Current, other |-> 0, arg |-> 0, ret |-> 0,
                    pre |-> NoPre]
        /\ UNCHANGED rw

\* h.change_num_of_lines(lines)
ChangeNumOfLines ==
    \E lines \in 0..MaxRows, fail \in AllocFailures :
        LET r == historybuf_resize(hb[Current], lines, fail # "buf", fail # "map")
        IN  /\ hb' = [hb EXCEPT ![Current] = r.hb]
            /\ log' = [log EXCEPT ![Current] = Touched]
            /\ last' = [op |-> "change_num_of_lines", self |-> Current, other |-> 0,
                        arg |-> [lines |-> lines, fail |-> fail], ret |-> r.ret,
                        pre |-> Summary(hb[Current])]
            /\ UNCHANGED <<pushes, rw>>

\* h.change_num_of_lines(lines) with lines > 0 and both allocations succeeding
Resized ==
    \E lines \in 1..MaxRows :
        LET r == historybuf_resize(hb[Current], lines, TRUE, TRUE)
        IN  /\ hb' = [hb EXCEPT ![Current] = r.hb]
            /\ log' = [log EXCEPT ![Current] = Touched]
            /\ last' = [op |-> "change_num_of_lines", self |-> Current, other |-> 0,
                        arg |-> [lines |-> lines, fail |-> "none"], ret |-> r.ret,
                        pre |-> NoPre]
            /\ UNCHANGED <<pushes, rw>>

\* h.line(lnum)
Line ==
    \E h \in Bufs, lnum \in 0..MaxRows :
        /\ last' = [op |-> "line", self |-> h, other |-> 0, arg |-> lnum,
                    ret |-> line(hb[h], lnum), pre |-> NoPre]
        /\ UNCHANGED <<hb, log, pushes, rw>>

\* historybuf_init_line(h, lnum, l), the read other modules call: slot is the
\* physical row the view l is made of
InitLine ==
    \E h \in Bufs, lnum \in 0..MaxRows :
        /\ last' = [op |-> "historybuf_init_line", self |-> h, other |-> 0, arg |-> lnum,
                    ret |-> [slot |-> index_of(hb[h], lnum),
                             line |-> historybuf_init_line(hb[h], lnum)],
                    pre |-> NoPre]
        /\ UNCHANGED <<hb, log, pushes, rw>>

\* h.rewrap(o)
Rewrap ==
    \E h \in Bufs, o \in Bufs :
        /\ h # o
        /\ hb' = [hb EXCEPT ![o] = historybuf_rewrap(hb[h], hb[o]),
                            ![h] = rewrap_source(hb[h], hb[o])]
        /\ log' = [log EXCEPT ![h] = Touched, ![o] = Touched]
        /\ last' = [op |-> "rewrap", self |-> h, other |-> o, arg |-> 0, ret |-> 0,
                    pre |-> Summary(hb[o])]
        /\ UNCHANGED <<pushes, rw>>

\* h.as_ansi(callback); the callback raises at its call number failAt, if ever
AsAnsi ==
    \E failAt \in 0..MaxRows :
        /\ last' = [op |-> "as_ansi", self |-> Current, other |-> 0, arg |-> failAt,
                    ret |-> as_ansi(hb[Current], failAt), pre |-> NoPre]
        /\ UNCHANGED <<hb, log, pushes, rw>>

\* h.rewrap(o) on stores of different shapes: the general path, made with the
\* interpreter lock held from start to end
RewrapGeneral ==
    \E h \in Bufs, o \in Bufs :
        /\ h # o
        /\ rw.pc = "idle"
        /\ ~(hb[o].xnum = hb[h].xnum /\ hb[o].ynum = hb[h].ynum)
        /\ hb' = [hb EXCEPT ![o] = historybuf_rewrap(hb[h], hb[o]),
                            ![h] = rewrap_source(hb[h], hb[o])]
        /\ log' = [log EXCEPT ![h] = Touched, ![o] = Touched]
        /\ last' = [op |-> "rewrap", self |-> h, other |-> o, arg |-> 0, ret |-> 0,
                    pre |-> Summary(hb[o])]
        /\ UNCHANGED <<pushes, rw>>

\* h.rewrap(o) on stores of the same shape, up to Py_BEGIN_ALLOW_THREADS: from
\* here on other threads run between the statements of the fast path
FastBegin ==
    \E h \in Bufs, o \in Bufs :
        /\ h # o
        /\ rw.pc = "idle"
        /\ hb[o].xnum = hb[h].xnum /\ hb[o].ynum = hb[h].ynum
        /\ rw' = [pc |-> "buf", self |-> h, other |-> o, at |-> pushes, pre |-> hb[o]]
        /\ UNCHANGED <<hb, log, pushes, last>>

\* memcpy(other->buf, self->buf, ...)
FastCopyBuf ==
    /\ rw.pc = "buf"
    /\ hb' = [hb EXCEPT ![rw.other].buf = hb[rw.self].buf]
    /\ log' = [log EXCEPT ![rw.self] = Touched, ![rw.other] = Touched]
    /\ rw' = [rw EXCEPT !.pc = "map"]
    /\ UNCHANGED <<pushes, last>>

\* memcpy(other->continued_map, self->continued_map, ...)
FastCopyMap ==
    /\ rw.pc = "map"
    /\ hb' = [hb EXCEPT ![rw.other].continued_map = hb[rw.self].continued_map]
    /\ rw' = [rw EXCEPT !.pc = "count"]
    /\ UNCHANGED <<log, pushes, last>>

\* other->count = self->count
FastSetCount ==
    /\ rw.pc = "count"
    /\ hb' = [hb EXCEPT ![rw.other].count = hb[rw.self].count]
    /\ rw' = [rw EXCEPT !.pc = "start"]
    /\ UNCHANGED <<log, pushes, last>>

\* other->start_of_data = self->start_of_data; Py_END_ALLOW_THREADS; return
FastSetStart ==
    /\ rw.pc = "start"
    /\ hb' = [hb EXCEPT ![rw.other].start_of_data = hb[rw.self].start_of_data]
    /\ last' = [op |-> "rewrap", self |-> rw.self, other |-> rw.other, arg |-> 0,
                ret |-> 0, pre |-> Summary(rw.pre)]
    /\ rw' = NoRewrap
    /\ UNCHANGED <<log, pushes>>

\* the store's mutating operations
Next == Push \/ ChangeNumOfLines \/ Rewrap

Spec == Init /\ [][Next]_vars

\* one store alone: store 2 is left as constructed
InitOne ==
    /\ hb \in { f \in [Bufs -> Dims] : f[2] = FreshBuf(1, 1) }
    /\ log = [h \in Bufs |-> [fresh |-> TRUE, rows |-> <<>>]]
    /\ pushes = 0
    /\ last = NoCall
    /\ rw = NoRewrap

\* pushes and reads
NextRead == Push \/ Line

SpecRead == InitOne /\ [][NextRead]_vars

\* pushes and capacity changes
NextResize == Push \/ ChangeNumOfLines

SpecResize == InitOne /\ [][NextResize]_vars

\* pushes and rewraps, each store into the other
NextRewrap == Push \/ Rewrap

SpecRewrap == Init /\ [][NextRewrap]_vars

\* pushes, capacity changes that go through, and rewraps
NextStore == Push \/ Resized \/ Rewrap

SpecStore == Init /\ [][NextStore]_vars

\* rewraps as the threads of the interpreter see them: the pushes of another
\* thread run between the statements of a fast path
NextThreads ==
    \/ Push
    \/ RewrapGeneral
    \/ FastBegin
    \/ FastCopyBuf
    \/ FastCopyMap
    \/ FastSetCount
    \/ FastSetStart

SpecThreads == Init /\ [][NextThreads]_vars

\* pushes and both reads
NextInitLine == Push \/ Line \/ InitLine

SpecInitLine == InitOne /\ [][NextInitLine]_vars

\* pushes and dumps
NextAnsi == Push \/ AsAnsi

SpecAnsi == InitOne /\ [][NextAnsi]_vars

\* construction alone
SpecNew == InitOne /\ [][New]_vars

\* ---------------------------------------------------------------- claims

\* Get(store, i): the row the checked read returns for reverse line number i
Get(self, i) == line(self, i).line

\* the call just made was `op`
Called(op) == last.op = op

\* C1: after N pushes into a freshly constructed store of capacity C, and
\* nothing else, count = min(N, C), Get(0) is the row pushed last and
\* Get(count - 1) is the oldest surviving row, the min(N, C)-th most recent.
C1_PushesKeepNewest ==
    \A h \in Bufs :
        log[h].fresh =>
            LET N == Len(log[h].rows)
                C == hb[h].ynum
            IN  /\ hb[h].count = MIN(N, C)
                /\ N > 0 => /\ line(hb[h], 0).err = "none"
                            /\ Get(hb[h], 0) = log[h].rows[N]
                            /\ Get(hb[h], hb[h].count - 1) = log[h].rows[N - MIN(N, C) + 1]

\* C1 witness: more rows were pushed than a capacity of two or more holds
C1_Witness ==
    /\ log[Current].fresh
    /\ hb[Current].ynum >= 2
    /\ Len(log[Current].rows) > hb[Current].ynum

\* C2: new(rows, cols) with rows >= 1, cols >= 1 and every allocation
\* succeeding returns a store and no error; MemoryError is reported only when
\* an allocation failed.
C2_ConstructSucceeds ==
    Called("new") =>
        LET a == last.arg
            allOK == a.selfOK /\ a.bufOK /\ a.mapOK /\ a.lineOK
        IN  /\ (a.ynum >= 1 /\ a.xnum >= 1 /\ allOK) =>
                (last.ret.err = "none" /\ last.ret.obj = "HistoryBuf")
            /\ last.ret.err = "MemoryError" => ~allOK

\* C3: a change_num_of_lines(K) that returns, with K > 0 and K other than the
\* capacity, leaves count = min(Q, K) and every Get(i), i < count, as it was.
C3_ResizeKeepsNewest ==
    [][ ( /\ last'.op = "change_num_of_lines"
          /\ last'.ret = TRUE
          /\ last'.arg.lines > 0
          /\ last'.arg.lines # hb[Current].ynum )
        => /\ hb'[Current].ynum = last'.arg.lines
           /\ hb'[Current].count = MIN(hb[Current].count, last'.arg.lines)
           /\ \A i \in 0..(hb'[Current].count - 1) :
                /\ line(hb'[Current], i).err = "none"
                /\ Get(hb'[Current], i) = Get(hb[Current], i) ]_vars

\* C3 witness: a store whose rows wrap around was resized and kept two rows
C3_Witness ==
    /\ Called("change_num_of_lines")
    /\ last.ret = TRUE
    /\ last.arg.lines # last.pre.ynum
    /\ last.pre.start_of_data # 0
    /\ hb[Current].count >= 2

\* C4: line(lnum) raises IndexError exactly when lnum >= count; otherwise it
\* returns the row at physical slot (start + (count - 1 - lnum)) mod rows
\* with that slot's flag.
C4_LineBounds ==
    Called("line") =>
        LET self == hb[last.self]
            lnum == last.arg
            slot == (self.start_of_data + (self.count - 1 - lnum)) % self.ynum
        IN  /\ (last.ret.err = "IndexError") <=> (lnum >= self.count)
            /\ lnum < self.count =>
                 /\ last.ret.err = "none"
                 /\ last.ret.line.cells = RowCells(self, slot)
                 /\ last.ret.line.continued = self.continued_map[slot]

\* C4 witness: an in-range read of an older row of a store that wraps around
C4_Witness ==
    /\ Called("line")
    /\ last.arg >= 1
    /\ last.arg < hb[last.self].count
    /\ hb[last.self].start_of_data # 0

\* C5: when either allocation of a resize fails the call reports failure and
\* the store is exactly as it was.
C5_ResizeFailureAtomic ==
    [][ ( /\ last'.op = "change_num_of_lines"
          /\ last'.arg.fail # "none"
          /\ last'.arg.lines > 0
          /\ last'.arg.lines # hb[Current].ynum )
        => /\ last'.ret = FALSE
           /\ hb'[Current] = hb[Current] ]_vars

\* C5 witness: the flag allocation failed while shrinking a store with rows
C5_Witness ==
    /\ Called("change_num_of_lines")
    /\ last.arg.fail = "map"
    /\ last.ret = FALSE
    /\ last.arg.lines > 0
    /\ last.arg.lines < hb[Current].count

\* the rewrap just made took the fast path
SameShape(a, b) == a.xnum = b.xnum /\ a.ynum = b.ynum

\* C6: a rewrap into a destination of the same width and capacity leaves the
\* destination with the source's count and, for every i < count, the
\* source's Get(i), whatever the destination held before.
C6_RewrapFastPath ==
    [][ \A s \in Bufs, o \in Bufs :
          ( /\ last'.op = "rewrap" /\ last'.self = s /\ last'.other = o
            /\ SameShape(hb[s], hb[o]) )
          => /\ hb'[o].count = hb[s].count
             /\ \A i \in 0..(hb[s].count - 1) :
                  /\ line(hb'[o], i).err = "none"
                  /\ Get(hb'[o], i) = Get(hb[s], i) ]_vars

\* C6 witness: a source that wraps around was copied over a destination that
\* held rows of its own
C6_Witness ==
    /\ Called("rewrap")
    /\ SameShape(hb[last.self], hb[last.other])
    /\ hb[last.other].count >= 2
    /\ hb[last.other].start_of_data # 0
    /\ last.pre.count > 0
    /\ last.pre.start_of_data = 0

Chron(self, y) == Get(self, self.count - 1 - y)

RECURSIVE RowsFrom(_, _)
\* the cells of rows y, y + 1, ... count - 1, oldest first, end to end
RowsFrom(self, y) ==
    IF y >= self.count THEN <<>>
    ELSE RowSeq(Chron(self, y).cells, self.xnum) \o RowsFrom(self, y + 1)

\* the characters the store holds, without the padding of its last row
Text(self) == TrimBlanks(RowsFrom(self, 0))

\* the store holds one logical line and nothing else: every row but the
\* newest is full and flagged continued, the newest is not flagged
OneLogicalLine(self) ==
    /\ self.count >= 1
    /\ \A y \in 0..(self.count - 1) :
         /\ Chron(self, y).continued = (y < self.count - 1)
         /\ Chron(self, y).cells[0] # BLANK_CHAR
         /\ y < self.count - 1 =>
              \A x \in 0..(self.xnum - 1) : Chron(self, y).cells[x] # BLANK_CHAR

CeilDiv(a, b) == (a + b - 1) \div b

\* C7: a rewrap at the same width into a larger capacity leaves the
\* destination with the source's count and, row for row, the source's
\* content and flag.  (Stated for a source whose newest row ends its line:
\* re-segmentation never flags the last chunk of a line.)
C7_RewrapSameWidth ==
    [][ \A s \in Bufs, o \in Bufs :
          ( /\ last'.op = "rewrap" /\ last'.self = s /\ last'.other = o
            /\ hb[o].xnum = hb[s].xnum
            /\ hb[o].ynum > hb[s].ynum
            /\ hb[s].count > 0
            /\ ~Get(hb[s], 0).continued )
          => /\ hb'[o].count = hb[s].count
             /\ \A i \in 0..(hb[s].count - 1) : Get(hb'[o], i) = Get(hb[s], i) ]_vars

\* C8: one logical line of L characters, stored at width W1 and rewrapped to a
\* narrower W2 with room for it, comes out as ceil(L / W2) rows that read
\* the same L characters, only the last of them not flagged continued.
C8_ReflowNarrower ==
    [][ \A s \in Bufs, o \in Bufs :
          ( /\ last'.op = "rewrap" /\ last'.self = s /\ last'.other = o
            /\ OneLogicalLine(hb[s])
            /\ hb[o].xnum < hb[s].xnum
            /\ hb[o].ynum >= CeilDiv(Len(Text(hb[s])), hb[o].xnum) )
          => /\ hb'[o].count = CeilDiv(Len(Text(hb[s])), hb[o].xnum)
             /\ Text(hb'[o]) = Text(hb[s])
             /\ \A y \in 0..(hb'[o].count - 1) :
                  Chron(hb'[o], y).continued = (y < hb'[o].count - 1) ]_vars

\* C9: one logical line of L characters held in several rows, rewrapped to a
\* width W2 >= L, comes out as exactly one row holding the L characters,
\* not flagged continued.
C9_WideningMerge ==
    [][ \A s \in Bufs, o \in Bufs :
          ( /\ last'.op = "rewrap" /\ last'.self = s /\ last'.other = o
            /\ OneLogicalLine(hb[s])
            /\ hb[s].count >= 2
            /\ hb[o].xnum >= Len(Text(hb[s])) )
          => /\ hb'[o].count = 1
             /\ TrimBlanks(RowSeq(Get(hb'[o], 0).cells, hb'[o].xnum)) = Text(hb[s])
             /\ ~Get(hb'[o], 0).continued ]_vars

\* C11: as_ansi calls the callback once per stored row, oldest row first,
\* also for a full store whose start is not 0.
C11_AsAnsiChronological ==
    (Called("as_ansi") /\ last.ret.err = "none") =>
        LET self == hb[last.self]
        IN  /\ Len(last.ret.calls) = self.count
            /\ \A k \in 1..self.count :
                 last.ret.calls[k].text = line_as_ansi(Chron(self, k - 1), self.xnum)

\* C12: the text as_ansi emits for a row ends in a newline exactly when the
\* row's own continuation flag is false.
C12_AsAnsiNewlineOwnFlag ==
    Called("as_ansi") =>
        \A k \in 1..Len(last.ret.calls) :
            last.ret.calls[k].newline
                <=> ~hb[last.self].continued_map[last.ret.calls[k].slot]

\* C13: a capacity change to 0 rows or to the present capacity returns
\* success and leaves the store as it is, whatever the allocator would do.
C13_ResizeNoOp ==
    [][ ( /\ last'.op = "change_num_of_lines"
          /\ \/ last'.arg.lines = 0
             \/ last'.arg.lines = hb[Current].ynum )
        => /\ last'.ret = TRUE
           /\ hb' = hb ]_vars

\* C13 witness: the present capacity was asked for on a full store whose
\* start is not 0, with the allocator about to fail
C13_Witness ==
    /\ Called("change_num_of_lines")
    /\ last.arg.lines = last.pre.ynum
    /\ last.arg.fail # "none"
    /\ hb[Current].start_of_data > 0
    /\ hb[Current].count = hb[Current].ynum

\* the physical rows of the valid region
ValidSlots(self) ==
    { (self.start_of_data + k) % self.ynum : k \in 0..(self.count - 1) }

\* the cells of the valid region that are not padding
ValidCells(self) ==
    { i \in DOMAIN self.buf :
        /\ \E y \in ValidSlots(self) : i >= lineptr(self, y) /\ i < lineptr(self, y) + self.xnum
        /\ self.buf[i] # BLANK_CHAR }

\* C14: after any sequence of pushes, capacity changes and rewraps a store has
\* at least one row and one column, 0 <= count <= capacity, start < capacity,
\* and its valid region holds cells that were pushed, each of them once.
C14_StoreInvariant ==
    \A h \in Bufs :
        LET self == hb[h]
        IN  /\ self.ynum >= 1
            /\ self.xnum >= 1
            /\ self.count >= 0
            /\ self.count <= self.ynum
            /\ self.start_of_data >= 0
            /\ self.start_of_data < self.ynum
            /\ DOMAIN self.buf = 0..(self.xnum * self.ynum - 1)
            /\ DOMAIN self.continued_map = 0..(self.ynum - 1)
            /\ \A i \in ValidCells(self) : self.buf[i] \in 1..(pushes * MaxCols)
            /\ \A i, j \in ValidCells(self) : self.buf[i] = self.buf[j] => i = j

\* C14 witness: a rewrap into a store of another shape filled it, from a
\* source whose capacity was changed and whose start is not 0
C14_Witness ==
    /\ Called("rewrap")
    /\ ~SameShape(hb[last.self], hb[last.other])
    /\ hb[last.other].count = hb[last.other].ynum
    /\ hb[last.other].start_of_data > 0
    /\ hb[Current].ynum # last.pre.ynum
    /\ pushes = MaxPushes

\* a destination of the width of `other` with room for every row a reflow of
\* the pushed cells can make
Roomy(other) == FreshBuf(MaxRows * MaxCols + 1, other.xnum)

\* the rewrap just made took the general path
GeneralPath == Called("rewrap") /\ ~SameShape(hb[last.self], hb[last.other])

\* C15: when the general path makes R rows, the destination ends with
\* MIN(R, capacity) rows, and they are the newest of the R rows, in order.
C15_ReflowEviction ==
    GeneralPath =>
        LET all == historybuf_rewrap(hb[last.self], Roomy(hb[last.other]))
            dst == hb[last.other]
        IN  /\ dst.count = MIN(all.count, dst.ynum)
            /\ \A i \in 0..(dst.count - 1) : Get(dst, i) = Get(all, i)

\* C15 witness: the reflow made more rows than the destination has, and the
\* oldest row kept is a later chunk of a line whose front was lost
C15_Witness ==
    /\ GeneralPath
    /\ historybuf_rewrap(hb[last.self], Roomy(hb[last.other])).count
           > hb[last.other].ynum
    /\ hb[last.other].count = hb[last.other].ynum
    /\ Get(historybuf_rewrap(hb[last.self], Roomy(hb[last.other])),
           hb[last.other].ynum).continued

\* C16: on the general path the source row at chronological position y is
\* joined to the row at y + 1 exactly when row y's own flag is true.
C16_ReassemblyOwnFlag ==
    GeneralPath =>
        \A y \in 0..(hb[last.self].count - 2) :
            is_src_line_continued(hb[last.self], y)
                <=> init_src_line(hb[last.self], y).continued

\* what reads of a store can tell: its count and the row at each line number
View(self) ==
    [count |-> self.count, rows |-> [i \in 0..(MaxRows - 1) |-> line(self, i)]]

\* C17: while a rewrap is in progress and nothing else has written, a thread
\* that reads the destination sees it as it was before the rewrap or as it
\* is after it.
C17_NoPartialDestination ==
    (rw.pc # "idle" /\ pushes = rw.at) =>
        \/ View(hb[rw.other]) = View(rw.pre)
        \/ View(hb[rw.other]) = View(historybuf_rewrap(hb[rw.self], rw.pre))

\* the two stores hold the same rows and flags at every line number, in
\* buffers of the same shape laid out from different starts
SameRowsOtherStart ==
    /\ SameShape(hb[1], hb[2])
    /\ hb[1].count = hb[2].count
    /\ \A i \in 0..(hb[1].count - 1) : Get(hb[1], i) = Get(hb[2], i)
    /\ hb[1].start_of_data # hb[2].start_of_data

\* C18: two sources of the same shape with the same rows and flags at every
\* line number, whatever their starts, rewrap on the general path into
\* destinations with the same count and the same rows.
C18_RewrapLayoutIndependent ==
    SameRowsOtherStart =>
        \A d \in Dims :
            ~SameShape(d, hb[1]) =>
                LET a == historybuf_rewrap(hb[1], d)
                    b == historybuf_rewrap(hb[2], d)
                IN  /\ a.count = b.count
                    /\ \A i \in 0..(a.count - 1) : Get(a, i) = Get(b, i)

\* C19: a view given by line() or by historybuf_init_line() is made of a
\* physical row of the valid region, and of the row asked for: never of a
\* row of an empty store, never of the oldest row for a line number past it.
C19_ReadsInValidRegion ==
    /\ (Called("line") /\ last.ret.err = "none") =>
           /\ index_of(hb[last.self], last.arg) \in ValidSlots(hb[last.self])
           /\ last.arg < hb[last.self].count
    /\ Called("historybuf_init_line") =>
           /\ last.ret.slot \in ValidSlots(hb[last.self])
           /\ last.arg < hb[last.self].count

\* C20: HistoryBuf(ynum, xnum) with ynum >= 1 and xnum >= 1 is never refused
\* as a store of no cells, whatever the product of the two is modulo 2^32.
C20_ZeroAreaOnlyWhenZero ==
    (Called("new") /\ last.arg.ynum >= 1 /\ last.arg.xnum >= 1) =>
        last.ret.err # "ValueError"

====
